---- MODULE Spec2Model ----
(***************************************************************************)
(* Message-context assembly and AI-response orchestration of the chat UI:  *)
(* the append-message route (POST /conversations/[id]/messages), the       *)
(* edit-message route (PUT /conversations/[id]/edit-message), the legacy   *)
(* AIService, the ChatService, the MessageMapper and the backend client.   *)
(*                                                                         *)
(* Text is a sequence of atoms.  The atom " " is whitespace, ":" is a      *)
(* colon, every other atom is an opaque run of non-blank characters, so    *)
(* trim(), split(': '), startsWith() and includes() are computed on the    *)
(* sequence the way the JavaScript string functions compute them.          *)
(***************************************************************************)
EXTENDS Integers, Sequences, FiniteSets, TLC

VARIABLES stored, updatedAt, now, last, svc, inflight

vars == <<stored, updatedAt, now, last, svc, inflight>>

(***************************************************************************)
(* Bounds of the model.                                                    *)
(***************************************************************************)
MaxOps == 3

(***************************************************************************)
(* Program constants.                                                      *)
(***************************************************************************)
ContextWindow == 10

BackendUrl == "http://localhost:8000"

(***************************************************************************)
(* String functions.                                                       *)
(***************************************************************************)
RECURSIVE TrimStart(_)
TrimStart(s) ==
  IF s = <<>> THEN <<>>
  ELSE IF Head(s) = " " THEN TrimStart(Tail(s)) ELSE s

RECURSIVE TrimEnd(_)
TrimEnd(s) ==
  IF s = <<>> THEN <<>>
  ELSE IF s[Len(s)] = " " THEN TrimEnd(SubSeq(s, 1, Len(s) - 1)) ELSE s

Trim(s) == TrimEnd(TrimStart(s))

StartsWith(s, p) == Len(s) >= Len(p) /\ SubSeq(s, 1, Len(p)) = p

Includes(s, atom) == \E i \in 1..Len(s) : s[i] = atom

\* s.split(': '): the pieces of s between the non-overlapping occurrences
\* of ": ", scanned left to right.
RECURSIVE SplitFrom(_, _)
SplitFrom(s, cur) ==
  IF s = <<>> THEN <<cur>>
  ELSE IF Len(s) >= 2 /\ s[1] = ":" /\ s[2] = " "
       THEN <<cur>> \o SplitFrom(SubSeq(s, 3, Len(s)), <<>>)
       ELSE SplitFrom(Tail(s), Append(cur, Head(s)))

\* s.split(': ', limit): at most `limit` leading pieces.
SplitLimit(s, limit) ==
  LET pieces == SplitFrom(s, <<>>)
  IN  IF Len(pieces) > limit THEN SubSeq(pieces, 1, limit) ELSE pieces

\* Variant: the first n elements instead of the last n.
SliceFirst(seq, n) ==
  IF Len(seq) <= n THEN seq ELSE SubSeq(seq, 1, n)

\* Array.prototype.slice(-n)
SliceLast(seq, n) ==
  IF n = 0 THEN seq
  ELSE IF Len(seq) <= n THEN seq ELSE SubSeq(seq, Len(seq) - n + 1, Len(seq))

(***************************************************************************)
(* Messages.  role "none" is an absent role, timestamp 0 an absent         *)
(* timestamp, content <<>> the empty string.                               *)
(***************************************************************************)
Msg(sender, role, content, timestamp) ==
  [sender |-> sender, role |-> role, content |-> content, timestamp |-> timestamp]

IsSystem(m) == m.role = "system"

IsVisible(m) == m.role # "system"

VisibleMessages(msgs) == SelectSeq(msgs, IsVisible)

SystemMessages(msgs) == SelectSeq(msgs, IsSystem)

\* Array.prototype.findIndex(m => m.role === 'system'), 0-based, -1 if none.
FindSystemIndex(msgs) ==
  IF \E i \in 1..Len(msgs) : IsSystem(msgs[i])
  THEN (CHOOSE i \in 1..Len(msgs) :
          /\ IsSystem(msgs[i])
          /\ \A j \in 1..(i - 1) : ~IsSystem(msgs[j])) - 1
  ELSE -1

\* Array.prototype.splice(i, 1) for a 0-based index i.
RemoveAt(msgs, i) == SubSeq(msgs, 1, i) \o SubSeq(msgs, i + 2, Len(msgs))

(***************************************************************************)
(* MessageMapper.                                                          *)
(***************************************************************************)
AIMsg(role, content) == [role |-> role, content |-> content]

\* Variant: the sender decides the role before the explicit role does.
ResolveRoleBySender(m) ==
  IF m.sender = "ai" THEN "assistant"
  ELSE IF m.sender = "user" THEN "user"
  ELSE IF m.role # "none" THEN m.role
  ELSE "user"

\* lines 19-36 of toAIMessages: the role of one message
ResolveRole(m) ==
  IF m.role # "none" THEN m.role
  ELSE IF m.sender = "ai" THEN "assistant"
  ELSE IF m.sender = "user" THEN "user"
  ELSE "user"

toAIMessages(msgs) ==
  [i \in 1..Len(msgs) |-> AIMsg(ResolveRole(msgs[i]), Trim(msgs[i].content))]

prepareAIContext(msgs, maxContextMessages) ==
  toAIMessages(SliceLast(msgs, maxContextMessages))

createSystemMessage(content, t) == Msg("ai", "system", Trim(content), t)

createUserMessage(content, t) == Msg("user", "user", Trim(content), t)

createAssistantMessage(content, t) == Msg("ai", "assistant", Trim(content), t)

\* An array element that is null instead of a message object.
NullEntry == [null |-> TRUE]

IsNullEntry(m) == DOMAIN m = {"null"}

\* Variant: a message without timestamp is not reported.
MessageIssuesNoTimestamp(m, index) ==
     (IF Trim(m.content) = <<>> THEN <<[index |-> index, rule |-> "empty content"]>> ELSE <<>>)
  \o (IF m.sender = "" /\ m.role = "none"
      THEN <<[index |-> index, rule |-> "no sender or role"]>> ELSE <<>>)

\* The issues of one message, in the order the checks are made.
MessageIssues(m, index) ==
     (IF Trim(m.content) = <<>> THEN <<[index |-> index, rule |-> "empty content"]>> ELSE <<>>)
  \o (IF m.sender = "" /\ m.role = "none"
      THEN <<[index |-> index, rule |-> "no sender or role"]>> ELSE <<>>)
  \o (IF m.timestamp = 0 THEN <<[index |-> index, rule |-> "no timestamp"]>> ELSE <<>>)

RECURSIVE IssuesFrom(_, _)
IssuesFrom(msgs, index) ==
  IF index >= Len(msgs) THEN <<>>
  ELSE MessageIssues(msgs[index + 1], index) \o IssuesFrom(msgs, index + 1)

\* validateMessages: isArray is FALSE for a value that is not an array
\* (msgs is then ignored).  Reading a field of a null element throws.
validateMessages(isArray, msgs) ==
  IF ~isArray
  THEN [thrown |-> FALSE, valid |-> FALSE,
        issues |-> <<[index |-> -1, rule |-> "not an array"]>>]
  ELSE IF \E i \in 1..Len(msgs) : IsNullEntry(msgs[i])
  THEN [thrown |-> TRUE, valid |-> FALSE, issues |-> <<>>]
  ELSE LET issues == IssuesFrom(msgs, 0)
       IN  [thrown |-> FALSE, valid |-> issues = <<>>, issues |-> issues]

(***************************************************************************)
(* The AI backend as seen by fetch(): what one HTTP exchange does.         *)
(*   text  : a 2xx answer whose body carries `response` = text            *)
(*   http  : a non-2xx answer whose body is text (<<>>: an empty body)     *)
(*   conn  : fetch rejects with a TypeError ("fetch failed")               *)
(*   abort : the client's timer aborts the request (AbortError)            *)
(***************************************************************************)
TextReply(text) == [kind |-> "text", text |-> text]

HttpFailure == [kind |-> "http", text |-> <<>>]

\* A non-2xx answer with the given body.
HttpFailureWith(body) == [kind |-> "http", text |-> body]

ConnFailure == [kind |-> "conn", text |-> <<>>]

AbortFailure == [kind |-> "abort", text |-> <<>>]

\* An outcome of a call that may throw: a returned text or a thrown value.
\* isError tells whether the thrown value is an instance of Error.
Returned(text) == [thrown |-> FALSE, isError |-> FALSE, text |-> text]

ThrownError(message) == [thrown |-> TRUE, isError |-> TRUE, text |-> message]

ThrownValue == [thrown |-> TRUE, isError |-> FALSE, text |-> <<>>]

(***************************************************************************)
(* HttpClient.request and AIBackendClient.generateResponse.                *)
(***************************************************************************)
\* HttpClient.request: the text of a 2xx answer, or the error it throws.
\* A thrown HttpError is marked by the atom "HttpError", followed by the
\* body of the answer.
\* The request to baseUrl + endpoint.  A 2xx answer whose body is not JSON
\* (kind "nojson") makes response.json() throw a SyntaxError.
HttpRequestTo(baseUrl, endpoint, backend) ==
  CASE backend.kind = "text"   -> Returned(backend.text)
    [] backend.kind = "http"   -> ThrownError(<<"HttpError">> \o backend.text)
    [] backend.kind = "conn"   ->
         ThrownError(<<"Failed to connect", " to ", baseUrl, endpoint,
                       ". Please check if the service is running.">>)
    [] backend.kind = "abort"  -> ThrownError(<<"This operation was aborted">>)
    [] backend.kind = "nojson" -> ThrownError(<<"Unexpected token">>)

HttpRequest(backend) == HttpRequestTo(BackendUrl, "/invoke_basic_model", backend)

\* Variant: the text of a 2xx answer is returned without the check that it
\* is not blank.
GenerateFromResponseUnchecked(response) ==
  IF ~response.thrown
  THEN Returned(Trim(response.text))
  ELSE IF response.text # <<>> /\ Head(response.text) = "HttpError"
       THEN ThrownError(<<"AI", " ", "Backend API error", " ", "(500)",
                          ":", " ">>
                        \o (IF Tail(response.text) = <<>>
                            THEN <<"Internal Server Error">>
                            ELSE Tail(response.text)))
       ELSE response

\* lines 64-88 of generateResponse: what it makes of the outcome of
\* httpClient.post.
GenerateFromResponse(response) ==
  IF ~response.thrown
  THEN IF Trim(response.text) = <<>>
       THEN ThrownError(<<"Backend returned an empty response">>)
       ELSE Returned(Trim(response.text))
  ELSE IF response.text # <<>> /\ Head(response.text) = "HttpError"
       THEN ThrownError(<<"AI", " ", "Backend API error", " ", "(500)",
                          ":", " ">>
                        \o (IF Tail(response.text) = <<>>
                            THEN <<"Internal Server Error">>
                            ELSE Tail(response.text)))
       ELSE response

BackendClientGenerate(backend) == GenerateFromResponse(HttpRequest(backend))

(***************************************************************************)
(* ChatService.generateResponse.  `provider` is what the provider does     *)
(* when it is called: Returned(text), ThrownError(message) or ThrownValue. *)
(***************************************************************************)
Success(content, payload) ==
  [success |-> TRUE, content |-> content, code |-> "", message |-> <<>>,
   details |-> <<>>, escaped |-> FALSE, called |-> TRUE, payload |-> payload]

Failure(code, message, details, called, payload) ==
  [success |-> FALSE, content |-> <<>>, code |-> code, message |-> message,
   details |-> details, escaped |-> FALSE, called |-> called, payload |-> payload]

\* An exception that leaves the call instead of a ServiceResult.
Escaped(called, payload) ==
  [success |-> FALSE, content |-> <<>>, code |-> "", message |-> <<>>,
   details |-> <<>>, escaped |-> TRUE, called |-> called, payload |-> payload]

\* Variant: the catch block handles Error instances and rethrows the rest.
ClassifyErrorRethrowing(err, called, payload) ==
  IF err.isError
  THEN Failure(IF Includes(err.text, "Failed to connect") THEN "BACKEND_CONNECTION_ERROR"
               ELSE IF Includes(err.text, "Backend API error") THEN "BACKEND_API_ERROR"
               ELSE "AI_SERVICE_ERROR",
               err.text, <<>>, called, payload)
  ELSE Escaped(called, payload)

\* The catch block of generateResponse (lines 116-143).
ClassifyError(err, called, payload) ==
  IF err.isError
  THEN Failure(IF Includes(err.text, "Failed to connect") THEN "BACKEND_CONNECTION_ERROR"
               ELSE IF Includes(err.text, "Backend API error") THEN "BACKEND_API_ERROR"
               ELSE "AI_SERVICE_ERROR",
               err.text, <<>>, called, payload)
  ELSE Failure("AI_SERVICE_ERROR", <<"Unknown AI service error">>, <<>>, called, payload)

\* Variant: the prepared context is handed to the provider without the
\* check that it holds a message.
ChatGenerateUnchecked(isArray, msgs, maxContextMessages, provider) ==
  LET validation == validateMessages(isArray, msgs)
      maxContext == IF maxContextMessages = 0 THEN ContextWindow ELSE maxContextMessages
  IN  IF validation.thrown
      THEN ClassifyError(ThrownError(<<"Cannot read properties of null">>), FALSE, <<>>)
      ELSE IF ~validation.valid
      THEN Failure("INVALID_MESSAGES", <<"Message validation failed">>,
                   validation.issues, FALSE, <<>>)
      ELSE LET aiMessages == prepareAIContext(msgs, maxContext)
           IN  IF provider.thrown
               THEN ClassifyError(provider, TRUE, aiMessages)
               ELSE Success(provider.text, aiMessages)

\* generateResponse (lines 60-144); maxContextMessages 0 stands for an
\* absent value.
ChatGenerate(isArray, msgs, maxContextMessages, provider) ==
  LET validation == validateMessages(isArray, msgs)
      maxContext == IF maxContextMessages = 0 THEN ContextWindow ELSE maxContextMessages
  IN  IF validation.thrown
      THEN ClassifyError(ThrownError(<<"Cannot read properties of null">>), FALSE, <<>>)
      ELSE IF ~validation.valid
      THEN Failure("INVALID_MESSAGES", <<"Message validation failed">>,
                   validation.issues, FALSE, <<>>)
      ELSE LET aiMessages == prepareAIContext(msgs, maxContext)
           IN  IF Len(aiMessages) = 0
               THEN Failure("NO_MESSAGES",
                            <<"No valid messages found for AI processing">>,
                            <<>>, FALSE, <<>>)
               ELSE IF provider.thrown
                    THEN ClassifyError(provider, TRUE, aiMessages)
                    ELSE Success(provider.text, aiMessages)

(***************************************************************************)
(* Legacy AIService (services/aiService.ts), used by the append route.     *)
(***************************************************************************)
\* One context string parsed back into a message list of length 0 or 1.
ParseContextMessage(contextMessage) ==
  IF StartsWith(contextMessage, <<"system", ":", " ">>)
  THEN <<AIMsg("system", Trim(SubSeq(contextMessage, 4, Len(contextMessage))))>>
  ELSE LET pieces == SplitLimit(contextMessage, 2)
       IN  IF Len(pieces) >= 2 /\ pieces[1] # <<>> /\ pieces[2] # <<>>
           THEN <<AIMsg(IF pieces[1] = <<"ai">> THEN "assistant"
                        ELSE IF pieces[1] = <<"system">> THEN "system"
                        ELSE "user",
                        Trim(pieces[2]))>>
           ELSE <<>>

RECURSIVE ParseContext(_)
ParseContext(conversationContext) ==
  IF conversationContext = <<>> THEN <<>>
  ELSE ParseContextMessage(Head(conversationContext))
       \o ParseContext(Tail(conversationContext))

buildMessagesArray(userMessage, conversationContext) ==
  ParseContext(conversationContext) \o <<AIMsg("user", userMessage)>>

\* getAIResponse: the trimmed response text, or the Error it throws.
getAIResponse(backend) ==
  CASE backend.kind = "text" ->
         IF Trim(backend.text) = <<>>
         THEN ThrownError(<<"AI backend error", ":", " ",
                            "Backend returned an empty response">>)
         ELSE Returned(Trim(backend.text))
    [] backend.kind = "http" ->
         ThrownError(<<"AI backend error", ":", " ",
                       "Backend API error", " ", "(500)", ":", " ">>
                     \o backend.text)
    [] backend.kind = "conn" ->
         ThrownError(<<"Failed to connect", " to AI backend at ", BackendUrl,
                       ". Please check if the backend is running.">>)

(***************************************************************************)
(* Persistence: the Conversation schema's validation on save().            *)
(***************************************************************************)
SchemaValidMessage(m) ==
  /\ m.sender \in {"user", "ai"}
  /\ m.content # <<>>
  /\ m.role \in {"system", "user", "assistant", "none"}

SchemaValid(msgs) == \A i \in 1..Len(msgs) : SchemaValidMessage(msgs[i])

(***************************************************************************)
(* Requests.  A body field that is absent, null or '' is "missing" for     *)
(* validateRequiredFields; content <<>>, sender "" and indexGiven = FALSE  *)
(* stand for such a field.  systemPrompt is [given, text].                 *)
(***************************************************************************)
NoPrompt == [given |-> FALSE, text |-> <<>>]

Prompt(text) == [given |-> TRUE, text |-> text]

ConversationId == "c1"

AppendReq(id, content, sender, sp) ==
  [id |-> id, content |-> content, sender |-> sender, indexGiven |-> FALSE,
   index |-> 0, sp |-> sp]

EditReq(id, indexGiven, index, newContent, sp) ==
  [id |-> id, content |-> newContent, sender |-> "", indexGiven |-> indexGiven,
   index |-> index, sp |-> sp]

\* Variant: only the content is required.
MissingAppendFieldsContentOnly(req) ==
  IF req.content = <<>> THEN {"content"} ELSE {}

\* validateRequiredFields(body, ['content', 'sender'])
MissingAppendFields(req) ==
  (IF req.content = <<>> THEN {"content"} ELSE {})
  \cup (IF req.sender = "" THEN {"sender"} ELSE {})

\* validateRequiredFields(body, ['messageIndex', 'newContent'])
MissingEditFields(req) ==
  (IF ~req.indexGiven THEN {"messageIndex"} ELSE {})
  \cup (IF req.content = <<>> THEN {"newContent"} ELSE {})

\* What a handler did: the response status, whether save() wrote the
\* document, the in-memory conversation when the handler ended, whether the
\* AI backend was called and with which messages, whether the reply was a
\* generated one, and (edit) the absolute index that was overwritten.
Outcome(status, saved, conv, called, payload, generated, actualIndex) ==
  [status |-> status, saved |-> saved, conv |-> conv, called |-> called,
   payload |-> payload, generated |-> generated, actualIndex |-> actualIndex]

Rejected(status, conv) == Outcome(status, FALSE, conv, FALSE, <<>>, FALSE, -1)

\* The atom for the cross mark (U+274C) that opens every error reply.
CrossMark == "[cross mark]"

ErrorContent(label, message) == <<CrossMark, " ", label, ":", " ">> \o message

(***************************************************************************)
(* POST /api/conversations/[id]/messages                                   *)
(***************************************************************************)
\* Variant: the system prompt is added even when one is present.
AppendSystemPromptAlways(msgs, sp, t) ==
  IF sp.given /\ sp.text # <<>>
  THEN <<Msg("ai", "system", sp.text, t)>> \o msgs
  ELSE msgs

\* lines 41-51: add the system prompt if provided and not already present
AppendSystemPrompt(msgs, sp, t) ==
  IF sp.given /\ sp.text # <<>> /\ ~(\E i \in 1..Len(msgs) : IsSystem(msgs[i]))
  THEN <<Msg("ai", "system", sp.text, t)>> \o msgs
  ELSE msgs

\* lines 53-61: the new message
AppendUserMessage(msgs, req, t) ==
  Append(msgs, Msg(req.sender,
                   IF req.sender = "user" THEN "user"
                   ELSE IF req.sender = "ai" THEN "assistant" ELSE "none",
                   req.content, t))

\* lines 68-76: the context strings
FormatContextMessage(m) ==
  IF m.role = "system" THEN <<"system", ":", " ">> \o m.content
  ELSE <<m.sender, ":", " ">> \o m.content

ConversationContext(msgs) ==
  LET window == SliceLast(msgs, ContextWindow)
  IN  [i \in 1..Len(window) |-> FormatContextMessage(window[i])]

\* Variant: the error reply carries the bare error message.
AppendReplyBare(response, t) ==
  Msg("ai", "assistant", response.text, t)

\* lines 94-113: the reply pushed after the call to aiService.getAIResponse
AppendReply(response, t) ==
  IF ~response.thrown
  THEN Msg("ai", "assistant", response.text, t)
  ELSE Msg("ai", "assistant",
           ErrorContent("**AI Error**",
                        IF response.isError THEN response.text
                        ELSE <<"Unknown AI service error">>), t)

AppendRoute(conv, req, backend, t) ==
  IF MissingAppendFields(req) # {} THEN Rejected(400, conv)
  ELSE IF req.id # ConversationId THEN Rejected(404, conv)
  ELSE
    LET withPrompt == AppendSystemPrompt(conv, req.sp, t)
        withUser   == AppendUserMessage(withPrompt, req, t)
        payload    == buildMessagesArray(req.content, ConversationContext(withUser))
        response   == getAIResponse(backend)
        final      == IF req.sender = "user"
                      THEN Append(withUser, AppendReply(response, t))
                      ELSE withUser
        called     == req.sender = "user"
    IN  IF SchemaValid(final)
        THEN Outcome(200, TRUE, final, called, IF called THEN payload ELSE <<>>,
                     called /\ ~response.thrown, -1)
        ELSE Outcome(500, FALSE, final, called, IF called THEN payload ELSE <<>>,
                     called /\ ~response.thrown, -1)

(***************************************************************************)
(* PUT /api/conversations/[id]/edit-message                                *)
(***************************************************************************)
\* Variant: an omitted prompt is handled like an empty one.
EditSystemPromptOmittedRemoves(msgs, sp, t) ==
  LET existingSystemIndex == FindSystemIndex(msgs)
  IN  IF Trim(sp.text) = <<>>
      THEN IF existingSystemIndex # -1
           THEN RemoveAt(msgs, existingSystemIndex)
           ELSE msgs
      ELSE IF existingSystemIndex # -1
           THEN [msgs EXCEPT ![existingSystemIndex + 1] =
                                createSystemMessage(sp.text, t)]
           ELSE <<createSystemMessage(sp.text, t)>> \o msgs

\* lines 70-93: add, replace or remove the system prompt
EditSystemPrompt(msgs, sp, t) ==
  IF ~sp.given THEN msgs
  ELSE LET existingSystemIndex == FindSystemIndex(msgs)
       IN  IF Trim(sp.text) = <<>>
           THEN IF existingSystemIndex # -1
                THEN RemoveAt(msgs, existingSystemIndex)
                ELSE msgs
           ELSE IF existingSystemIndex # -1
                THEN [msgs EXCEPT ![existingSystemIndex + 1] =
                                     createSystemMessage(sp.text, t)]
                ELSE <<createSystemMessage(sp.text, t)>> \o msgs

\* lines 95-108: the 0-based absolute index of the visible message number
\* messageIndex, or -1.
RECURSIVE ScanForVisible(_, _, _, _)
ScanForVisible(allMessages, i, visibleCount, messageIndex) ==
  IF i >= Len(allMessages) THEN -1
  ELSE IF allMessages[i + 1].role # "system"
       THEN IF visibleCount = messageIndex THEN i
            ELSE ScanForVisible(allMessages, i + 1, visibleCount + 1, messageIndex)
       ELSE ScanForVisible(allMessages, i + 1, visibleCount, messageIndex)

\* Variant: the visible index is used as the absolute index.
ActualMessageIndexUnmapped(allMessages, messageIndex) ==
  IF messageIndex < Len(allMessages) THEN messageIndex ELSE -1

ActualMessageIndex(allMessages, messageIndex) ==
  ScanForVisible(allMessages, 0, 0, messageIndex)

\* Variant: the target is overwritten and nothing is dropped.
EditWithoutTruncate(msgs, actualMessageIndex, newContent, t) ==
  [msgs EXCEPT ![actualMessageIndex + 1].content = Trim(newContent),
               ![actualMessageIndex + 1].timestamp = t]

\* Variant: the content of every kept message is trimmed like the edited
\* one.
EditAndTruncateTrimmingAll(msgs, actualMessageIndex, newContent, t) ==
  [i \in 1..(actualMessageIndex + 1) |->
     IF i = actualMessageIndex + 1
     THEN [msgs[i] EXCEPT !.content = Trim(newContent), !.timestamp = t]
     ELSE [msgs[i] EXCEPT !.content = Trim(msgs[i].content)]]

\* lines 117-122: overwrite the target, drop what follows it
EditAndTruncate(msgs, actualMessageIndex, newContent, t) ==
  SubSeq([msgs EXCEPT ![actualMessageIndex + 1].content = Trim(newContent),
                      ![actualMessageIndex + 1].timestamp = t],
         1, actualMessageIndex + 1)

\* lines 144-163: the reply pushed for a ServiceResult
EditReply(result, t) ==
  IF result.success
  THEN createAssistantMessage(result.content, t)
  ELSE createAssistantMessage(ErrorContent("**AI Error**", result.message), t)

\* lines 165-172: the reply pushed when the generation block throws
UnexpectedReply(t) ==
  createAssistantMessage(
    ErrorContent("**Unexpected Error**",
                 <<"Failed to generate AI response. Please try again.">>), t)

\* Variant: only the range of the index is checked.
EditGuardRangeOnly(visibleMessages, messageIndex) ==
  messageIndex < 0 \/ messageIndex >= Len(visibleMessages)

\* lines 42-59: the index is out of range or the target is no user message
EditGuardRejects(visibleMessages, messageIndex) ==
  IF messageIndex < 0 \/ messageIndex >= Len(visibleMessages) THEN TRUE
  ELSE visibleMessages[messageIndex + 1].sender # "user"

EditRoute(conv, req, backend, t) ==
  IF MissingEditFields(req) # {} THEN Rejected(400, conv)
  ELSE IF req.id # ConversationId THEN Rejected(404, conv)
  ELSE
    LET visibleMessages == VisibleMessages(conv)
    IN  IF EditGuardRejects(visibleMessages, req.index)
        THEN Rejected(400, conv)
        ELSE
          LET withPrompt == EditSystemPrompt(conv, req.sp, t)
              actual     == ActualMessageIndex(withPrompt, req.index)
          IN  IF actual = -1 THEN Rejected(404, withPrompt)
              ELSE
                LET truncated == EditAndTruncate(withPrompt, actual, req.content, t)
                    result    == ChatGenerate(TRUE, truncated, ContextWindow,
                                              BackendClientGenerate(backend))
                    final     == Append(truncated,
                                        IF result.escaped THEN UnexpectedReply(t)
                                        ELSE EditReply(result, t))
                IN  Outcome(IF SchemaValid(final) THEN 200 ELSE 500,
                            SchemaValid(final), final, result.called,
                            result.payload, result.success, actual)

(***************************************************************************)
(* Inputs of the requests and behaviours of the AI backend.                *)
(***************************************************************************)
Prompts == {NoPrompt, Prompt(<<>>), Prompt(<<" ">>), Prompt(<<"P">>),
            Prompt(<<" ", "Q">>)}

BasePrompts == {NoPrompt, Prompt(<<"P">>)}

GoodReply == TextReply(<<"r", " ">>)

BlankReply == TextReply(<<" ">>)

LegacyBackends == {GoodReply, BlankReply, HttpFailure, ConnFailure}

\* A non-2xx answer whose body quotes an upstream connection failure.
UpstreamFailure == HttpFailureWith(<<"upstream", ":", " ", "Failed to connect">>)

Backends == LegacyBackends \cup {AbortFailure, UpstreamFailure}

EditBackends == {GoodReply, BlankReply, ConnFailure}

NoBackend == [kind |-> "none", text |-> <<>>]

Case(req, backend) == [req |-> req, backend |-> backend]

\* Append requests paired with what the backend does if it is called:
\* every prompt with a good reply, the base prompts with every backend
\* behaviour, other contents and senders, and one request for each way of
\* being rejected (content missing, sender missing, unknown id, bad sender).
AppendCases ==
  {Case(AppendReq(ConversationId, <<"a">>, "user", sp), GoodReply) : sp \in Prompts}
  \cup {Case(AppendReq(ConversationId, <<"a">>, "user", sp), backend) :
          sp \in BasePrompts, backend \in LegacyBackends}
  \cup {Case(AppendReq(ConversationId, <<" ", "x", ":", " ", "y">>, "user", NoPrompt),
             GoodReply),
        Case(AppendReq(ConversationId, <<"b">>, "user", Prompt(<<>>)), GoodReply),
        Case(AppendReq(ConversationId, <<"a">>, "ai", Prompt(<<"P">>)), NoBackend),
        Case(AppendReq(ConversationId, <<>>, "user", Prompt(<<"P">>)), NoBackend),
        Case(AppendReq(ConversationId, <<"a">>, "", Prompt(<<"P">>)), NoBackend),
        Case(AppendReq("unknown", <<"a">>, "user", Prompt(<<"P">>)), NoBackend),
        Case(AppendReq(ConversationId, <<"a">>, "bot", NoPrompt), NoBackend)}

\* Edit requests for every index from -1 to one past the end: every prompt
\* with a good reply, the base prompts with every backend behaviour, a
\* whitespace-only new content, and one request for each missing field and
\* for an unknown id.
EditCases(conv) ==
  {Case(EditReq(ConversationId, TRUE, index, <<" ", "c", " ">>, sp), GoodReply) :
     index \in -1..Len(conv), sp \in Prompts}
  \cup {Case(EditReq(ConversationId, TRUE, index, <<" ", "c", " ">>, sp), backend) :
          index \in 0..(Len(conv) - 1), sp \in BasePrompts, backend \in EditBackends}
  \cup {Case(EditReq(ConversationId, TRUE, index, <<" ">>, NoPrompt), NoBackend) :
          index \in 0..(Len(conv) - 1)}
  \cup {Case(EditReq(ConversationId, FALSE, 0, <<"c">>, Prompt(<<"P">>)), NoBackend),
        Case(EditReq(ConversationId, TRUE, 0, <<>>, Prompt(<<"P">>)), NoBackend),
        Case(EditReq("unknown", TRUE, 0, <<"c">>, Prompt(<<"P">>)), NoBackend)}

NoRequest == AppendReq("", <<>>, "", NoPrompt)

NoOutcome == Rejected(0, <<>>)

(***************************************************************************)
(* The store holds one conversation, created empty by POST /conversations. *)
(* `now` is the last value read from the clock; a handler that reads the   *)
(* clock reads now + 1.  `last` is the record of the last request handled. *)
(***************************************************************************)
NoCall == [op |-> "none"]

\* The operations in flight: the two request handlers that may overlap,
\* each idle, loaded (between findById and save) or done, and the version
\* (__v) of the stored document.  Handlers that run one after the other
\* leave it as it is.
OpIds == {1, 2}

Idle == [pc |-> "idle"]

NoOperations == [version |-> 0, ops |-> [o \in OpIds |-> Idle]]

Init ==
  /\ stored = <<>>
  /\ updatedAt = 0
  /\ now = 0
  /\ last = [op |-> "none", req |-> NoRequest, backend |-> NoBackend,
             pre |-> <<>>, preUpdatedAt |-> 0, out |-> NoOutcome]
  /\ svc = NoCall
  /\ inflight = NoOperations

Handle(op, req, backend, out) ==
  /\ now' = IF out = Rejected(out.status, stored) THEN now ELSE now + 1
  /\ stored' = IF out.saved THEN out.conv ELSE stored
  /\ updatedAt' = IF out.saved THEN now + 1 ELSE updatedAt
  /\ last' = [op |-> op, req |-> req,
              backend |-> IF out.called THEN backend ELSE NoBackend,
              pre |-> stored, preUpdatedAt |-> updatedAt, out |-> out]
  /\ UNCHANGED <<svc, inflight>>

AppendMessage ==
  /\ now < MaxOps
  /\ \E c \in AppendCases :
       LET out == AppendRoute(stored, c.req, c.backend, now + 1)
       IN  Handle("append", c.req, c.backend, out)

EditMessage ==
  /\ now < MaxOps
  /\ \E c \in EditCases(stored) :
       LET out == EditRoute(stored, c.req, c.backend, now + 1)
       IN  Handle("edit", c.req, c.backend, out)

Next == AppendMessage \/ EditMessage

Spec == Init /\ [][Next]_vars

(***************************************************************************)
(* ChatService.generateResponse and MessageMapper.validateMessages called  *)
(* directly with any request: a value                                      *)
(* that is no array, or an array of at most MaxMsgs entries drawn from     *)
(* well-formed and malformed messages, a context size (0 when absent),     *)
(* and a provider that returns a text, throws an Error or throws a value   *)
(* that is no Error.                                                       *)
(***************************************************************************)
MaxMsgs == 2

MessagePool ==
  {Msg("user", "user", <<"hi">>, 1),
   Msg("ai", "none", <<" ", "yo">>, 1),
   Msg("user", "user", <<" ">>, 1),
   Msg("user", "none", <<"hi">>, 0),
   Msg("", "none", <<"hi">>, 1),
   NullEntry}

MessageLists == UNION {[1..n -> MessagePool] : n \in 0..MaxMsgs}

ProviderBehaviours == {BackendClientGenerate(b) : b \in Backends} \cup {ThrownValue}

ServiceRequests ==
  {[op |-> "request", isArray |-> isArray,
    messages |-> IF isArray THEN msgs ELSE <<>>,
    maxContextMessages |-> maxContextMessages, provider |-> provider] :
     isArray \in BOOLEAN, msgs \in MessageLists,
     maxContextMessages \in 0..MaxMsgs, provider \in ProviderBehaviours}

InitService ==
  /\ stored = <<>>
  /\ updatedAt = 0
  /\ now = 0
  /\ last = [op |-> "none", req |-> NoRequest, backend |-> NoBackend,
             pre |-> <<>>, preUpdatedAt |-> 0, out |-> NoOutcome]
  /\ svc \in ServiceRequests
  /\ inflight = NoOperations

CallGenerateResponse ==
  /\ svc.op = "request"
  /\ svc' = [op |-> "generateResponse", isArray |-> svc.isArray,
             messages |-> svc.messages,
             maxContextMessages |-> svc.maxContextMessages,
             provider |-> svc.provider,
             result |-> ChatGenerate(svc.isArray, svc.messages,
                                     svc.maxContextMessages, svc.provider)]
  /\ UNCHANGED <<stored, updatedAt, now, last, inflight>>

\* MessageMapper.validateMessages called with the messages of the request.
CallValidateMessages ==
  /\ svc.op = "request"
  /\ svc' = [op |-> "validateMessages", isArray |-> svc.isArray,
             messages |-> svc.messages,
             result |-> validateMessages(svc.isArray, svc.messages)]
  /\ UNCHANGED <<stored, updatedAt, now, last, inflight>>

NextService == CallGenerateResponse \/ CallValidateMessages

SpecService == InitService /\ [][NextService]_vars

(***************************************************************************)
(* MessageMapper called directly: toAIMessages and prepareAIContext        *)
(* applied to any list of at most MaxLen messages with and without an      *)
(* explicit role, from known and unknown senders, and any context size     *)
(* from 0 to MaxLen + 1.                                                   *)
(***************************************************************************)
MaxLen == 3

MapperPool ==
  {Msg("user", "none", <<"u">>, 1),
   Msg("ai", "none", <<" ", "a", " ">>, 1),
   Msg("bot", "none", <<"b">>, 1),
   Msg("user", "assistant", <<"x">>, 1),
   Msg("ai", "system", <<"s">>, 1),
   Msg("ai", "user", <<"y">>, 1)}

MapperLists == UNION {[1..n -> MapperPool] : n \in 0..MaxLen}

MapperRequests ==
  {[op |-> "mapperRequest", messages |-> msgs, maxContextMessages |-> n] :
     msgs \in MapperLists, n \in 0..(MaxLen + 1)}

InitMapper ==
  /\ stored = <<>>
  /\ updatedAt = 0
  /\ now = 0
  /\ last = [op |-> "none", req |-> NoRequest, backend |-> NoBackend,
             pre |-> <<>>, preUpdatedAt |-> 0, out |-> NoOutcome]
  /\ svc \in MapperRequests
  /\ inflight = NoOperations

CallPrepareAIContext ==
  /\ svc.op = "mapperRequest"
  /\ svc' = [op |-> "prepareAIContext", messages |-> svc.messages,
             maxContextMessages |-> svc.maxContextMessages,
             result |-> prepareAIContext(svc.messages, svc.maxContextMessages)]
  /\ UNCHANGED <<stored, updatedAt, now, last, inflight>>

CallToAIMessages ==
  /\ svc.op = "mapperRequest"
  /\ svc' = [op |-> "toAIMessages", messages |-> svc.messages,
             maxContextMessages |-> svc.maxContextMessages,
             result |-> toAIMessages(svc.messages)]
  /\ UNCHANGED <<stored, updatedAt, now, last, inflight>>

NextMapper == CallPrepareAIContext \/ CallToAIMessages

SpecMapper == InitMapper /\ [][NextMapper]_vars

(***************************************************************************)
(* Model configuration.  An object is a function from its own keys to      *)
(* values; "undefined" is the value undefined, which a key may hold.       *)
(* A request carries modelConfig or not; the routes map it to a config     *)
(* override, the services spread it over their defaults, and the client    *)
(* puts the four parameters into the request payload.                      *)
(***************************************************************************)
Undefined == "undefined"

\* obj[key] in JavaScript: undefined for a key the object does not have.
Get(obj, key) == IF key \in DOMAIN obj THEN obj[key] ELSE Undefined

\* { ...a, ...b }: every own key of b wins, whatever its value.
Spread(a, b) ==
  [key \in DOMAIN a \cup DOMAIN b |-> IF key \in DOMAIN b THEN b[key] ELSE a[key]]

\* An absent object; spreading it adds nothing.
NoObject == <<>>

\* this.defaultConfig of ChatService and this.config of AIService.
DefaultConfig ==
  [responseDelay |-> "0", provider |-> "google", model |-> "gemini-2.0-flash",
   temperature |-> "0.7", topP |-> "1.0", maxOutputTokens |-> "2048"]

NoModelConfig == [given |-> FALSE, fields |-> NoObject]

ModelConfig(fields) == [given |-> TRUE, fields |-> fields]

\* mapModelConfigToAI of the edit route and the aiConfigOverride literal of
\* the append route: an object that has all four keys.
mapModelConfigToAI(modelConfig) ==
  [provider    |-> Get(modelConfig, "provider"),
   model       |-> Get(modelConfig, "modelName"),
   temperature |-> Get(modelConfig, "temperature"),
   topP        |-> Get(modelConfig, "topP")]

\* config: modelConfig ? mapModelConfigToAI(modelConfig) : undefined
ConfigOverride(mc) == IF mc.given THEN mapModelConfigToAI(mc.fields) ELSE NoObject

\* const effectiveConfig = { ...this.defaultConfig, ...request.config }
EffectiveConfig(override) == Spread(DefaultConfig, override)

\* The requestPayload of the backend client and of the legacy AIService.
RequestPayload(config) ==
  [temperature    |-> config["temperature"],
   top_p          |-> config["topP"],
   model_name     |-> config["model"],
   model_provider |-> config["provider"]]

\* The values a request may give to each key of modelConfig.
ConfigValues ==
  [provider    |-> {"openai"},
   modelName   |-> {"gpt-4", "gemini-2.0-flash"},
   temperature |-> {"0", "0.2"},
   topP        |-> {"0.9", "1.0"}]

ModelConfigObjects ==
  UNION {{f \in [keys -> UNION {ConfigValues[k] : k \in DOMAIN ConfigValues}] :
            \A k \in keys : f[k] \in ConfigValues[k]} :
         keys \in SUBSET DOMAIN ConfigValues}

ModelConfigs == {NoModelConfig} \cup {ModelConfig(f) : f \in ModelConfigObjects}

ConfigRequests ==
  {[op |-> "configRequest", route |-> route, modelConfig |-> mc] :
     route \in {"append", "edit"}, mc \in ModelConfigs}

InitConfig ==
  /\ stored = <<>>
  /\ updatedAt = 0
  /\ now = 0
  /\ last = [op |-> "none", req |-> NoRequest, backend |-> NoBackend,
             pre |-> <<>>, preUpdatedAt |-> 0, out |-> NoOutcome]
  /\ svc \in ConfigRequests
  /\ inflight = NoOperations

\* The append route calls aiService.getAIResponse with the override.
AppendCallsBackend ==
  /\ svc.op = "configRequest" /\ svc.route = "append"
  /\ svc' = [op |-> "backendCall", route |-> svc.route,
             modelConfig |-> svc.modelConfig,
             payload |-> RequestPayload(EffectiveConfig(ConfigOverride(svc.modelConfig)))]
  /\ UNCHANGED <<stored, updatedAt, now, last, inflight>>

\* The edit route calls chatService.generateResponse with the override.
EditCallsBackend ==
  /\ svc.op = "configRequest" /\ svc.route = "edit"
  /\ svc' = [op |-> "backendCall", route |-> svc.route,
             modelConfig |-> svc.modelConfig,
             payload |-> RequestPayload(EffectiveConfig(ConfigOverride(svc.modelConfig)))]
  /\ UNCHANGED <<stored, updatedAt, now, last, inflight>>

NextConfig == AppendCallsBackend \/ EditCallsBackend

SpecConfig == InitConfig /\ [][NextConfig]_vars

(***************************************************************************)
(* Two handlers on the same conversation that may overlap.  A handler      *)
(* loads the document (findById), changes its copy in memory while it      *)
(* awaits the generation, and calls save() once.  save() sends what the    *)
(* handler changed: messages that were only pushed are sent as a $push,    *)
(* which adds them to the stored array and increments the version; an      *)
(* array that was replaced (unshift of a system message, assignment of     *)
(* the truncated array) is sent as a $set of the whole array under the     *)
(* condition that the stored version is the loaded one, and save() throws  *)
(* when it is not.  A document that fails the schema is not sent at all.   *)
(***************************************************************************)
\* The conversations the handlers start from: a new one, and the result of
\* a first append without and with a system prompt.
BaseConversations ==
  {<<>>} \cup {AppendRoute(<<>>, AppendReq(ConversationId, <<"a">>, "user", sp),
                           GoodReply, 1).conv : sp \in BasePrompts}

\* The text each handler sends, so that their messages can be told apart.
Content(o) == IF o = 1 THEN <<"b">> ELSE <<"c">>

RaceBackends == {GoodReply, ConnFailure}

RaceAppendCases(o) ==
  {Case(AppendReq(ConversationId, Content(o), "user", sp), backend) :
     sp \in BasePrompts, backend \in RaceBackends}

RaceEditCases(o) ==
  {Case(EditReq(ConversationId, TRUE, 0, Content(o), sp), backend) :
     sp \in {NoPrompt, Prompt(<<" ", "Q">>)}, backend \in RaceBackends}

\* Variant: the messages of an append are always sent as a $push.
AppendWriteAlwaysPush(loaded, req, t) == "push"

\* How save() sends the messages of an append: the array was replaced when
\* a system message was unshifted (line 50), pushed to otherwise.
AppendWrite(loaded, req, t) ==
  IF AppendSystemPrompt(loaded, req.sp, t) # loaded THEN "set" ELSE "push"

\* A handler between findById and save(), and after save().
Loaded(kind, req, loaded, loadedVersion, conv, write, overlap) ==
  [pc |-> "loaded", kind |-> kind, req |-> req, loaded |-> loaded,
   loadedVersion |-> loadedVersion, conv |-> conv, write |-> write,
   overlap |-> overlap, status |-> 0, order |-> 0]

Done(op, status, order) ==
  [op EXCEPT !.pc = "done", !.status = status, !.order = order]

\* Variant: only the first pushed message is sent.
PushedWithoutReply(loaded, conv) ==
  SubSeq(conv, Len(loaded) + 1, Len(loaded) + 1)

\* The messages pushed to the loaded array.
PushedMessages(loaded, conv) == SubSeq(conv, Len(loaded) + 1, Len(conv))

SaveOutcome(status, messages, version) ==
  [status |-> status, stored |-> messages, version |-> version]

\* Variant: save() writes the whole document, whatever the stored version.
SaveResultOverwrite(op, storedNow, versionNow) ==
  IF ~SchemaValid(op.conv) THEN SaveOutcome(500, storedNow, versionNow)
  ELSE SaveOutcome(200, op.conv, versionNow + 1)

\* conversation.save(): the response status, the stored messages and the
\* stored version after it.
SaveResult(op, storedNow, versionNow) ==
  IF ~SchemaValid(op.conv) THEN SaveOutcome(500, storedNow, versionNow)
  ELSE IF op.write = "push"
  THEN SaveOutcome(200, storedNow \o PushedMessages(op.loaded, op.conv),
                   versionNow + 1)
  ELSE IF versionNow = op.loadedVersion
  THEN SaveOutcome(200, op.conv, versionNow + 1)
  ELSE SaveOutcome(500, storedNow, versionNow)

\* Some other handler is between its load and its save.
OtherLoaded(o) == \E p \in OpIds \ {o} : inflight.ops[p].pc = "loaded"

InitRace ==
  /\ stored \in BaseConversations
  /\ updatedAt = (IF stored = <<>> THEN 0 ELSE 1)
  /\ now = (IF stored = <<>> THEN 0 ELSE 1)
  /\ last = [op |-> "none", req |-> NoRequest, backend |-> NoBackend,
             pre |-> <<>>, preUpdatedAt |-> 0, out |-> NoOutcome]
  /\ svc = NoCall
  /\ inflight = NoOperations

\* POST up to the await of save(): load, change the copy, generate.
LoadAppend ==
  \E o \in OpIds : \E c \in RaceAppendCases(o) :
    LET out == AppendRoute(stored, c.req, c.backend, now + 1)
    IN  /\ inflight.ops[o].pc = "idle"
        /\ inflight' = [inflight EXCEPT !.ops[o] =
                          Loaded("append", c.req, stored, inflight.version, out.conv,
                                 AppendWrite(stored, c.req, now + 1), OtherLoaded(o))]
        /\ now' = now + 1
        /\ UNCHANGED <<stored, updatedAt, last, svc>>

\* PUT up to the await of save(), for a request that passes the guard.
LoadEdit ==
  \E o \in OpIds : \E c \in RaceEditCases(o) :
    LET out == EditRoute(stored, c.req, c.backend, now + 1)
    IN  /\ inflight.ops[o].pc = "idle"
        /\ out.actualIndex # -1
        /\ inflight' = [inflight EXCEPT !.ops[o] =
                          Loaded("edit", c.req, stored, inflight.version, out.conv,
                                 "set", OtherLoaded(o))]
        /\ now' = now + 1
        /\ UNCHANGED <<stored, updatedAt, last, svc>>

\* await conversation.save() and the response.
Save ==
  \E o \in OpIds :
    LET op     == inflight.ops[o]
        result == SaveResult(op, stored, inflight.version)
        order  == 1 + Cardinality({p \in OpIds : inflight.ops[p].pc = "done"})
    IN  /\ op.pc = "loaded"
        /\ stored' = result.stored
        /\ updatedAt' = (IF result.status = 200 THEN now ELSE updatedAt)
        /\ inflight' = [version |-> result.version,
                        ops |-> [inflight.ops EXCEPT ![o] =
                                   Done(op, result.status, order)]]
        /\ UNCHANGED <<now, last, svc>>

NextRace == LoadAppend \/ LoadEdit \/ Save

SpecRace == InitRace /\ [][NextRace]_vars

(***************************************************************************)
(* The backend client.  The HttpClient holds a configuration object        *)
(* (baseUrl, timeout); AIBackendClient.updateConfig changes it, and every  *)
(* request reads it: the URL is baseUrl + endpoint, and a timer aborts     *)
(* the request after options.timeout || config.timeout when that value is  *)
(* set.  Durations are written as text, like every value of an object.     *)
(***************************************************************************)
OtherUrl == "http://backend:9000"

\* A value that `||` and `if` take as true.
Truthy(v) == v # Undefined

\* new AIBackendClient(config): the configuration of its HttpClient
\* (part_004 lines 31-38).
NewClientConfig(config) ==
  [baseUrl |-> Get(config, "baseUrl"),
   timeout |-> IF Truthy(Get(config, "timeout")) THEN config["timeout"] ELSE "30000"]

\* HttpClient.updateConfig: this.config = { ...this.config, ...newConfig }
HttpClientUpdateConfig(config, newConfig) == Spread(config, newConfig)

\* AIBackendClient.updateConfig (part_004 lines 139-146): the object handed
\* to the HttpClient has both keys, whatever the caller supplied.
BackendClientUpdateConfig(clientConfig, config) ==
  IF Truthy(Get(config, "baseUrl")) \/ Truthy(Get(config, "timeout"))
  THEN HttpClientUpdateConfig(clientConfig,
                              [baseUrl |-> Get(config, "baseUrl"),
                               timeout |-> Get(config, "timeout")])
  ELSE clientConfig

\* lines 52-57 of HttpClient.request: where the request goes and after how
\* long it is aborted (Undefined: no timer is set).
RequestOf(clientConfig, endpoint, options) ==
  [baseUrl  |-> clientConfig["baseUrl"],
   endpoint |-> endpoint,
   timeout  |-> IF Truthy(Get(options, "timeout")) THEN options["timeout"]
                ELSE clientConfig["timeout"]]

NoRequestSent == [baseUrl |-> Undefined, endpoint |-> "", timeout |-> Undefined]

\* A 2xx answer whose body is not JSON.
NotJsonReply == [kind |-> "nojson", text |-> <<"OK">>]

\* The server never answers.
NoAnswer == [kind |-> "silent", text |-> <<>>]

\* fetch() rejects a URL it cannot parse with a TypeError.
BadUrl == ThrownError(<<"Failed to parse URL">>)

\* The call has not returned.
Pending == [thrown |-> FALSE, isError |-> FALSE, text |-> <<"pending">>]

\* What the server may do with a request.
ServerBehaviours ==
  {GoodReply, BlankReply, NotJsonReply, HttpFailure, ConnFailure, NoAnswer}

\* What fetch() makes of the server's behaviour for one request: a server
\* that never answers ends in an abort when a timer is set.
FetchOutcome(request, server) ==
  IF server.kind = "silent"
  THEN IF Truthy(request.timeout) THEN AbortFailure ELSE NoAnswer
  ELSE server

\* HttpClient.request for a request and a server behaviour.
ClientRequest(request, server) ==
  IF ~Truthy(request.baseUrl) THEN BadUrl
  ELSE LET outcome == FetchOutcome(request, server)
       IN  IF outcome.kind = "silent" THEN Pending
           ELSE HttpRequestTo(request.baseUrl, request.endpoint, outcome)

\* A boolean that a call returned, or an exception that left it.
ReturnedBool(value) == [thrown |-> FALSE, value |-> value]

\* AIBackendClient.isHealthy (part_004 lines 94-102) for the outcome of
\* httpClient.get('/health', { timeout: 5000 }).
isHealthy(response) ==
  IF response.thrown THEN ReturnedBool(FALSE) ELSE ReturnedBool(TRUE)

\* ChatService.isBackendAvailable (part_001 lines 149-156) over
\* provider.isAvailable(), which returns client.isHealthy().
isBackendAvailable(response) ==
  LET available == isHealthy(response)
  IN  IF available.thrown THEN ReturnedBool(FALSE) ELSE available

HealthOptions == [timeout |-> "5000"]

\* The configurations a client is constructed with and updated with.
ClientUrls == {BackendUrl, OtherUrl}

ClientTimeouts == {"1000"}

PartialConfigs ==
  {NoObject}
  \cup {[baseUrl |-> u] : u \in ClientUrls}
  \cup {[timeout |-> t] : t \in ClientTimeouts}
  \cup {[baseUrl |-> u, timeout |-> t] : u \in ClientUrls, t \in ClientTimeouts}

ConstructorConfigs == {c \in PartialConfigs : "baseUrl" \in DOMAIN c}

\* The client: its configuration, the configuration before the last
\* update and the object that update was given, and the last request with
\* the server's behaviour and what the call returned.
Client(op, config, prev, update, request, server, result) ==
  [op |-> op, config |-> config, prev |-> prev, update |-> update,
   request |-> request, server |-> server, result |-> result]

InitClient ==
  /\ stored = <<>>
  /\ updatedAt = 0
  /\ now = 0
  /\ last = [op |-> "none", req |-> NoRequest, backend |-> NoBackend,
             pre |-> <<>>, preUpdatedAt |-> 0, out |-> NoOutcome]
  /\ svc \in {Client("constructed", NewClientConfig(c), NewClientConfig(c),
                     NoObject, NoRequestSent, NoBackend, Pending) :
                c \in ConstructorConfigs}
  /\ inflight = NoOperations

UpdateConfig ==
  /\ \E config \in PartialConfigs :
       svc' = Client("updateConfig",
                     BackendClientUpdateConfig(svc.config, config),
                     svc.config, config, NoRequestSent, NoBackend, Pending)
  /\ UNCHANGED <<stored, updatedAt, now, last, inflight>>

\* AIBackendClient.generateResponse: POST /invoke_basic_model.
CallBackendGenerate ==
  /\ \E server \in ServerBehaviours :
       LET request  == RequestOf(svc.config, "/invoke_basic_model", NoObject)
           response == ClientRequest(request, server)
       IN  svc' = Client("clientGenerate", svc.config, svc.prev, svc.update,
                         request, server,
                         IF response = Pending THEN Pending
                         ELSE GenerateFromResponse(response))
  /\ UNCHANGED <<stored, updatedAt, now, last, inflight>>

CallIsHealthy ==
  /\ \E server \in ServerBehaviours :
       LET request == RequestOf(svc.config, "/health", HealthOptions)
       IN  svc' = Client("isHealthy", svc.config, svc.prev, svc.update,
                         request, server,
                         isHealthy(ClientRequest(request, server)))
  /\ UNCHANGED <<stored, updatedAt, now, last, inflight>>

CallIsBackendAvailable ==
  /\ \E server \in ServerBehaviours :
       LET request == RequestOf(svc.config, "/health", HealthOptions)
       IN  svc' = Client("isBackendAvailable", svc.config, svc.prev, svc.update,
                         request, server,
                         isBackendAvailable(ClientRequest(request, server)))
  /\ UNCHANGED <<stored, updatedAt, now, last, inflight>>

NextClient ==
  UpdateConfig \/ CallBackendGenerate \/ CallIsHealthy \/ CallIsBackendAvailable

SpecClient == InitClient /\ [][NextClient]_vars

(***************************************************************************)
(* Vocabulary of the properties.                                           *)
(***************************************************************************)
\* The last request was an append that called the AI backend.
AppendCalled == last.op = "append" /\ last.out.called

\* The last request was an edit that passed the guard and was carried out.
EditCarriedOut == last.op = "edit" /\ last.out.actualIndex # -1

\* The time the last handler read from the clock.
LastTime == now

HasSystem(msgs) == \E i \in 1..Len(msgs) : IsSystem(msgs[i])

\* Positions of the payload that hold a user message with the given text.
Occurrences(payload, text) ==
  {i \in 1..Len(payload) :
     payload[i].role = "user" /\ Trim(payload[i].content) = Trim(text)}

IsErrorReply(m) ==
  m.role = "assistant" /\ m.sender = "ai" /\ StartsWith(m.content, <<CrossMark>>)

(***************************************************************************)
(* C1  No duplication on append: whenever an append with sender 'user'     *)
(* calls the AI backend, the messages of the request payload end with the  *)
(* new user message and contain it exactly once.                           *)
(***************************************************************************)
C1_NoDuplicationOnAppend ==
  AppendCalled =>
    LET payload == last.out.payload
    IN  /\ Len(payload) >= 1
        /\ payload[Len(payload)] = AIMsg("user", last.req.content)
        /\ Cardinality(Occurrences(payload, last.req.content)) = 1

(***************************************************************************)
(* C2  Single system message: the stored conversation has at most one      *)
(* message with role 'system', and if it has one it is at index 0.         *)
(***************************************************************************)
C2_SingleSystemMessage ==
  /\ Len(SystemMessages(stored)) <= 1
  /\ \A i \in 1..Len(stored) : IsSystem(stored[i]) => i = 1

\* An append or an edit gave a system prompt to a conversation that already
\* had a system message, and the result was saved.
C2_Witness ==
  /\ last.op \in {"append", "edit"}
  /\ last.out.saved
  /\ last.req.sp.given /\ Trim(last.req.sp.text) # <<>>
  /\ HasSystem(last.pre)
  /\ HasSystem(stored)
  /\ Len(stored) >= 5

(***************************************************************************)
(* C3  Edit truncation: an edit that passed the guard keeps the first k    *)
(* visible messages, puts the edited message at visible index k and one    *)
(* reply after it, and keeps nothing that followed the edited message;     *)
(* when generation succeeds the result is saved, has exactly k + 2 visible *)
(* messages and ends with the new assistant message.                       *)
(***************************************************************************)
C3_EditTruncation ==
  EditCarriedOut =>
    LET k       == last.req.index
        before  == VisibleMessages(last.pre)
        conv    == last.out.conv
        visible == VisibleMessages(conv)
    IN  /\ Len(visible) = k + 2
        /\ \A i \in 1..k : visible[i] = before[i]
        /\ visible[k + 1] = [before[k + 1] EXCEPT !.content = Trim(last.req.content),
                                                  !.timestamp = LastTime]
        /\ conv[Len(conv) - 1] = visible[k + 1]
        /\ conv[Len(conv)] = visible[k + 2]
        /\ visible[k + 2].role = "assistant"
        /\ last.out.generated =>
             /\ last.out.status = 200
             /\ stored = conv
             /\ visible[k + 2] = Msg("ai", "assistant",
                                     Trim(last.backend.text), LastTime)

\* A successful edit of the third visible message of a four-message history.
C3_Witness ==
  /\ EditCarriedOut
  /\ last.out.generated
  /\ last.req.index = 2
  /\ Len(VisibleMessages(last.pre)) = 4
  /\ Len(VisibleMessages(stored)) = 4

(***************************************************************************)
(* C4  Edit guard: an edit whose visible index is negative or not below    *)
(* the number of visible messages, or whose target has sender # 'user',    *)
(* answers 400, calls no backend, saves nothing and leaves the stored      *)
(* conversation and its updatedAt as they were.                            *)
(***************************************************************************)
C4_EditGuard ==
  LET visible == VisibleMessages(last.pre)
      k       == last.req.index
  IN  ( /\ last.op = "edit"
        /\ MissingEditFields(last.req) = {}
        /\ last.req.id = ConversationId
        /\ \/ k < 0
           \/ k >= Len(visible)
           \/ visible[k + 1].sender # "user" )
      => /\ last.out.status = 400
         /\ ~last.out.called
         /\ ~last.out.saved
         /\ stored = last.pre
         /\ updatedAt = last.preUpdatedAt

\* An edit aimed at an assistant message of a conversation with a system
\* message, carrying a new system prompt, was rejected.
C4_Witness ==
  /\ last.op = "edit"
  /\ last.out.status = 400
  /\ last.req.index >= 0
  /\ last.req.index < Len(VisibleMessages(last.pre))
  /\ VisibleMessages(last.pre)[last.req.index + 1].sender = "ai"
  /\ last.req.sp = Prompt(<<" ", "Q">>)
  /\ HasSystem(stored)

(***************************************************************************)
(* C5  Error absorption on append: when the backend call fails during an   *)
(* append with sender 'user' on an existing conversation, the operation    *)
(* answers 200 and saves; the saved conversation ends with the new user    *)
(* message followed by exactly one assistant message that starts with the  *)
(* cross mark.                                                             *)
(***************************************************************************)
C5_ErrorAbsorption ==
  (AppendCalled /\ getAIResponse(last.backend).thrown) =>
    LET n == Len(stored)
    IN  /\ last.out.status = 200
        /\ last.out.saved
        /\ stored = last.out.conv
        /\ Len(VisibleMessages(stored)) = Len(VisibleMessages(last.pre)) + 2
        /\ stored[n - 1] = Msg("user", "user", last.req.content, LastTime)
        /\ IsErrorReply(stored[n])

\* A connection failure of the backend was absorbed by an append.
C5_WitnessConn ==
  AppendCalled /\ last.backend = ConnFailure /\ IsErrorReply(stored[Len(stored)])

(***************************************************************************)
(* C6  ChatService.generateResponse never lets an exception escape: for    *)
(* every request and every behaviour of the provider the call returns a    *)
(* ServiceResult, a success or a failure with a code and a message.        *)
(***************************************************************************)
ServiceErrorCodes ==
  {"INVALID_MESSAGES", "NO_MESSAGES", "BACKEND_CONNECTION_ERROR",
   "BACKEND_API_ERROR", "AI_SERVICE_ERROR"}

C7_AppendUpsertsPrompt ==
  ( /\ last.op = "append"
    /\ last.out.status = 200
    /\ last.req.sp.given
    /\ Trim(last.req.sp.text) # <<>> )
  => /\ HasSystem(stored)
     /\ FindSystemIndex(stored) = (IF HasSystem(last.pre)
                                   THEN FindSystemIndex(last.pre) ELSE 0)
     /\ Trim(stored[FindSystemIndex(stored) + 1].content) = Trim(last.req.sp.text)

(***************************************************************************)
(* C8  Append with systemPrompt '' removes the system message: after such  *)
(* an append the stored conversation has no system message.                *)
(***************************************************************************)
C8_AppendEmptyPromptRemoves ==
  ( /\ last.op = "append"
    /\ last.out.status = 200
    /\ last.req.sp = Prompt(<<>>) )
  => ~HasSystem(stored)

(***************************************************************************)
(* C9  Omitted systemPrompt: an append or edit without systemPrompt leaves *)
(* the system message as it was: same message at the same index, or none   *)
(* before and none after.                                                  *)
(***************************************************************************)
C9_OmittedPromptKeepsSystem ==
  ( /\ last.op \in {"append", "edit"}
    /\ ~last.req.sp.given )
  => /\ SystemMessages(last.out.conv) = SystemMessages(last.pre)
     /\ FindSystemIndex(last.out.conv) = FindSystemIndex(last.pre)
     /\ SystemMessages(stored) = SystemMessages(last.pre)
     /\ FindSystemIndex(stored) = FindSystemIndex(last.pre)

\* An edit without systemPrompt of a conversation with a system message
\* was carried out and saved.
C9_Witness ==
  /\ EditCarriedOut
  /\ last.out.saved
  /\ ~last.req.sp.given
  /\ HasSystem(last.pre)
  /\ HasSystem(stored)

(***************************************************************************)
(* C10  Edit upserts the system prompt before truncating: a non-blank      *)
(* prompt replaces the system message at its index or is inserted at       *)
(* index 0, a blank prompt removes the system message, and the message     *)
(* overwritten is the visible message the index designated before the      *)
(* upsert.                                                                 *)
(***************************************************************************)
C10_EditUpsertsPrompt ==
  EditCarriedOut =>
    LET conv   == last.out.conv
        sp     == last.req.sp
        before == VisibleMessages(last.pre)
        k      == last.req.index
    IN  /\ (sp.given /\ Trim(sp.text) # <<>>) =>
             /\ Len(SystemMessages(conv)) = 1
             /\ FindSystemIndex(conv) = (IF HasSystem(last.pre)
                                         THEN FindSystemIndex(last.pre) ELSE 0)
             /\ conv[FindSystemIndex(conv) + 1] =
                  Msg("ai", "system", Trim(sp.text), LastTime)
        /\ (sp.given /\ Trim(sp.text) = <<>>) => ~HasSystem(conv)
        /\ conv[last.out.actualIndex + 1] =
             [before[k + 1] EXCEPT !.content = Trim(last.req.content),
                                   !.timestamp = LastTime]
        /\ VisibleMessages(conv)[k + 1] = conv[last.out.actualIndex + 1]

\* An edit carrying the prompt " Q" replaced the system message "P" of the
\* conversation and was saved.
C10_WitnessReplace ==
  /\ EditCarriedOut /\ last.out.saved
  /\ last.req.sp = Prompt(<<" ", "Q">>)
  /\ HasSystem(last.pre)
  /\ last.pre[1].content = <<"P">>
  /\ stored[1].content = <<"Q">>

(***************************************************************************)
(* C11  No provider call for a request that cannot be sent: when           *)
(* validateMessages reports issues, generateResponse returns the code      *)
(* INVALID_MESSAGES with those issues as details; when the prepared        *)
(* context is empty it returns the code NO_MESSAGES; in both cases the     *)
(* provider is not called.                                                 *)
(***************************************************************************)
C11_NoCallWhenUnsendable ==
  svc.op = "generateResponse" =>
    LET validation == validateMessages(svc.isArray, svc.messages)
        maxContext == IF svc.maxContextMessages = 0 THEN ContextWindow
                      ELSE svc.maxContextMessages
    IN  /\ (~validation.thrown /\ validation.issues # <<>>) =>
             /\ ~svc.result.success
             /\ svc.result.code = "INVALID_MESSAGES"
             /\ svc.result.details = validation.issues
             /\ ~svc.result.called
        /\ ( /\ ~validation.thrown
             /\ validation.issues = <<>>
             /\ prepareAIContext(svc.messages, maxContext) = <<>> ) =>
             /\ ~svc.result.success
             /\ svc.result.code = "NO_MESSAGES"
             /\ ~svc.result.called

\* A list with two issues was refused although the provider would have
\* answered.
C11_Witness ==
  /\ svc.op = "generateResponse"
  /\ svc.result.code = "INVALID_MESSAGES"
  /\ Len(svc.result.details) = 2
  /\ ~svc.provider.thrown
  /\ ~svc.result.called

(***************************************************************************)
(* C12  Error classification: when the provider throws, a connection       *)
(* failure gives the code BACKEND_CONNECTION_ERROR and a message that      *)
(* holds the backend address, a non-2xx answer gives BACKEND_API_ERROR,    *)
(* and every other thrown error gives AI_SERVICE_ERROR.                    *)
(***************************************************************************)
C12_ErrorClassification ==
  (svc.op = "generateResponse" /\ svc.result.called /\ svc.provider.thrown) =>
    LET isHttp == \E b \in Backends :
                    b.kind = "http" /\ svc.provider = BackendClientGenerate(b)
        isConn == svc.provider = BackendClientGenerate(ConnFailure)
    IN  /\ ~svc.result.success
        /\ isConn => /\ svc.result.code = "BACKEND_CONNECTION_ERROR"
                     /\ Includes(svc.result.message, BackendUrl)
        /\ isHttp => svc.result.code = "BACKEND_API_ERROR"
        /\ (~isConn /\ ~isHttp) => svc.result.code = "AI_SERVICE_ERROR"

(***************************************************************************)
(* C13  A timeout is a connection failure: when the HTTP client's timer    *)
(* aborts the generation request, generateResponse returns a failure with  *)
(* the code BACKEND_CONNECTION_ERROR.                                      *)
(***************************************************************************)
C13_TimeoutIsConnectionFailure ==
  ( /\ svc.op = "generateResponse"
    /\ svc.result.called
    /\ svc.provider = BackendClientGenerate(AbortFailure) )
  => /\ ~svc.result.success
     /\ svc.result.code = "BACKEND_CONNECTION_ERROR"

(***************************************************************************)
(* C14  Context window: for a list of L messages and N >= 1,               *)
(* prepareAIContext returns min(N, L) messages, the last min(N, L)         *)
(* messages of the list in their order, each as toAIMessages maps it.      *)
(***************************************************************************)
C14_ContextWindow ==
  (svc.op = "prepareAIContext" /\ svc.maxContextMessages >= 1) =>
    LET msgs   == svc.messages
        L      == Len(msgs)
        N      == svc.maxContextMessages
        k      == IF N < L THEN N ELSE L
        result == svc.result
    IN  /\ Len(result) = k
        /\ \A i \in 1..k :
             result[i] = toAIMessages(<<msgs[L - k + i]>>)[1]

\* The last two of three different messages were returned.
C14_Witness ==
  /\ svc.op = "prepareAIContext"
  /\ Len(svc.messages) = 3
  /\ svc.maxContextMessages = 2
  /\ Len(svc.result) = 2
  /\ svc.messages[1] # svc.messages[2]
  /\ svc.messages[2] # svc.messages[3]
  /\ svc.messages[1] # svc.messages[3]

(***************************************************************************)
(* C15  Role mapping: toAIMessages gives each message its explicit role    *)
(* when it has one, otherwise 'assistant' for sender 'ai' and 'user' for   *)
(* sender 'user' and for any other sender; the output has the length and   *)
(* the order of the input.                                                 *)
(***************************************************************************)
C15_RoleMapping ==
  svc.op = "toAIMessages" =>
    LET msgs   == svc.messages
        result == svc.result
    IN  /\ Len(result) = Len(msgs)
        /\ \A i \in 1..Len(msgs) :
             /\ result[i].content = Trim(msgs[i].content)
             /\ result[i].role =
                  (IF msgs[i].role # "none" THEN msgs[i].role
                   ELSE IF msgs[i].sender = "ai" THEN "assistant"
                   ELSE "user")

\* A message from 'user' with the explicit role 'assistant', one from
\* 'ai' without a role and one from an unknown sender were mapped.
C15_Witness ==
  /\ svc.op = "toAIMessages"
  /\ Len(svc.messages) = 3
  /\ svc.messages[1] = Msg("user", "assistant", <<"x">>, 1)
  /\ svc.result[1].role = "assistant"
  /\ svc.messages[2] = Msg("ai", "none", <<" ", "a", " ">>, 1)
  /\ svc.result[2].role = "assistant"
  /\ svc.messages[3] = Msg("bot", "none", <<"b">>, 1)
  /\ svc.result[3].role = "user"

(***************************************************************************)
(* C16  Defaults are supplied when absent: in the payload of an append or  *)
(* edit, each of provider, model, temperature and topP has the value the   *)
(* request's model config supplies, and the service default when the       *)
(* model config does not supply it.                                        *)
(***************************************************************************)
C16_DefaultsWhenAbsent ==
  svc.op = "backendCall" =>
    LET supplied(key) == svc.modelConfig.given /\ key \in DOMAIN svc.modelConfig.fields
        expected(key, default) ==
          IF supplied(key) THEN svc.modelConfig.fields[key] ELSE default
    IN  /\ svc.payload.model_provider = expected("provider", "google")
        /\ svc.payload.model_name = expected("modelName", "gemini-2.0-flash")
        /\ svc.payload.temperature = expected("temperature", "0.7")
        /\ svc.payload.top_p = expected("topP", "1.0")

(***************************************************************************)
(* C18  Structural failures never mutate the transcript: an append         *)
(* without content or sender, an edit without messageIndex or newContent,  *)
(* and an append or edit for an id that names no conversation answer with  *)
(* a failure status, call no backend and save nothing.                     *)
(***************************************************************************)
C18_StructuralFailures ==
  LET missing == \/ last.op = "append" /\ (last.req.content = <<>> \/ last.req.sender = "")
                 \/ last.op = "edit" /\ (~last.req.indexGiven \/ last.req.content = <<>>)
      unknown == last.op \in {"append", "edit"} /\ last.req.id # ConversationId
  IN  (missing \/ unknown) =>
        /\ last.out.status = (IF missing THEN 400 ELSE 404)
        /\ ~last.out.called
        /\ ~last.out.saved
        /\ stored = last.pre
        /\ updatedAt = last.preUpdatedAt

\* An append without a sender to a conversation that holds messages was
\* refused.
C18_Witness ==
  /\ last.op = "append"
  /\ last.req.sender = ""
  /\ last.req.content # <<>>
  /\ last.out.status = 400
  /\ Len(stored) >= 2

(***************************************************************************)
(* C20  Every generation outcome of an edit is absorbed: an edit that      *)
(* passed validation ends with the edited user message followed by         *)
(* exactly one assistant message, is saved and answers 200; the reply for  *)
(* a failure result is the cross mark and '**AI Error**: <message>'; the   *)
(* messages given to the provider are those of the truncated history,      *)
(* the edited message with its new content last.                           *)
(***************************************************************************)
C20_EditAbsorbsOutcome ==
  EditCarriedOut =>
    LET conv    == last.out.conv
        n       == Len(conv)
        actual  == last.out.actualIndex
        history == SubSeq(conv, 1, n - 1)
    IN  /\ n = actual + 2
        /\ conv[n - 1].sender = "user"
        /\ conv[n - 1].content = Trim(last.req.content)
        /\ conv[n].sender = "ai" /\ conv[n].role = "assistant"
        /\ last.out.status = 200
        /\ last.out.saved
        /\ stored = conv
        /\ ~last.out.generated =>
             StartsWith(conv[n].content,
                        <<CrossMark, " ", "**AI Error**", ":", " ">>)
        /\ last.out.called =>
             /\ last.out.payload = toAIMessages(SliceLast(history, ContextWindow))
             /\ last.out.payload[Len(last.out.payload)] =
                  AIMsg("user", Trim(last.req.content))

(***************************************************************************)
(* Vocabulary of the overlapping handlers.                                 *)
(***************************************************************************)
BothDone == \A o \in OpIds : inflight.ops[o].pc = "done"

\* The second handler loaded while the first was between load and save.
Raced == \E o \in OpIds : inflight.ops[o].pc # "idle" /\ inflight.ops[o].overlap

FirstSaver == CHOOSE o \in OpIds : inflight.ops[o].order = 1

LastSaver == CHOOSE o \in OpIds : inflight.ops[o].order = 2

(***************************************************************************)
(* C17  A mutation is saved as one unit: the store changes only in the     *)
(* single save of a handler, which writes the handler's user message       *)
(* together with its reply (after an edit or a system-prompt insertion:    *)
(* the whole conversation of the handler); a save that fails leaves the    *)
(* store as it was, and a handler that has answered writes nothing more.   *)
(***************************************************************************)
C17_SavedAsOneUnit ==
  [][ /\ \A o \in OpIds :
           LET before == inflight.ops[o]
               after  == inflight'.ops[o]
           IN  /\ before.pc = "done" => after = before
               /\ (before.pc = "loaded" /\ after.pc = "done") =>
                    IF after.status = 200
                    THEN LET n == Len(before.conv)
                             m == Len(stored')
                         IN  /\ m >= 2
                             /\ stored'[m - 1] = before.conv[n - 1]
                             /\ stored'[m] = before.conv[n]
                             /\ stored'[m - 1].sender = "user"
                             /\ stored'[m].role = "assistant"
                             /\ before.write = "set" => stored' = before.conv
                    ELSE stored' = stored
      /\ stored' # stored =>
           \E o \in OpIds : /\ inflight.ops[o].pc = "loaded"
                            /\ inflight'.ops[o].pc = "done"
                            /\ inflight'.ops[o].status = 200
    ]_vars

\* While one handler is between its load and its save, the store holds the
\* complete result of an edit that the other handler saved.
C17_Witness ==
  /\ inflight.ops[1].pc = "done"
  /\ inflight.ops[1].kind = "edit"
  /\ inflight.ops[1].status = 200
  /\ inflight.ops[2].pc = "loaded"
  /\ stored = inflight.ops[1].conv

(***************************************************************************)
(* C19  Lost update under a race, as claimed: when both handlers load      *)
(* before either saves, both answer 200 and the store holds the            *)
(* conversation of the handler that saved last, without the message of     *)
(* the other handler.                                                      *)
(***************************************************************************)
C19_LastSaveWins ==
  (BothDone /\ Raced) =>
    /\ \A o \in OpIds : inflight.ops[o].status = 200
    /\ stored = inflight.ops[LastSaver].conv
    /\ \A i \in 1..Len(stored) : stored[i].content # Content(FirstSaver)

(***************************************************************************)
(* C19 as amended: when both handlers load before either saves and the     *)
(* first save succeeds, it is never silently overwritten: a last saver     *)
(* that only pushed messages answers 200 and its messages are added after  *)
(* the first saver's conversation; a last saver that replaced the array    *)
(* answers 500 and the store keeps the first saver's conversation.         *)
(***************************************************************************)
C19_NoSilentLoss ==
  (BothDone /\ Raced /\ inflight.ops[FirstSaver].status = 200) =>
    LET first == inflight.ops[FirstSaver]
        final == inflight.ops[LastSaver]
    IN  IF final.write = "push"
        THEN /\ final.status = 200
             /\ stored = first.conv \o PushedMessages(final.loaded, final.conv)
        ELSE /\ final.status = 500
             /\ stored = first.conv

\* An edit and an append raced, the append saved first and the edit was
\* refused.
C19_Witness ==
  /\ BothDone /\ Raced
  /\ inflight.ops[FirstSaver].kind = "append"
  /\ inflight.ops[FirstSaver].status = 200
  /\ inflight.ops[LastSaver].kind = "edit"
  /\ inflight.ops[LastSaver].status = 500
  /\ stored = inflight.ops[FirstSaver].conv

(***************************************************************************)
(* C21  Stored content is never blank: after any sequence of appends and   *)
(* edits, no message of the stored conversation has content that is empty  *)
(* or made only of whitespace.                                             *)
(***************************************************************************)
C21_NonBlankContent ==
  \A i \in 1..Len(stored) : Trim(stored[i].content) # <<>>

(***************************************************************************)
(* C22  The health check never throws: isHealthy and isBackendAvailable    *)
(* return true when the server answers the health GET with a 2xx status,   *)
(* and false for every failure of the request; no exception leaves them.   *)
(***************************************************************************)
C22_HealthNeverThrows ==
  svc.op \in {"isHealthy", "isBackendAvailable"} =>
    LET answered2xx == /\ Truthy(svc.request.baseUrl)
                       /\ svc.server.kind \in {"text", "nojson"}
    IN  /\ ~svc.result.thrown
        /\ svc.result.value = answered2xx

(***************************************************************************)
(* C26  Updating the client's configuration changes only the fields        *)
(* supplied: after updateConfig({baseUrl: u}) the generation request goes  *)
(* to u and is aborted after the timeout configured before the update;     *)
(* after updateConfig({timeout: t}) it is aborted after t and goes to the  *)
(* base URL configured before the update.                                  *)
(***************************************************************************)
C26_UpdateConfigKeepsOtherFields ==
  (svc.op = "clientGenerate" /\ svc.update # NoObject) =>
    LET supplied(key) == key \in DOMAIN svc.update
    IN  /\ (supplied("baseUrl") /\ ~supplied("timeout")) =>
             /\ svc.request.baseUrl = svc.update["baseUrl"]
             /\ svc.request.timeout = svc.prev["timeout"]
        /\ (supplied("timeout") /\ ~supplied("baseUrl")) =>
             /\ svc.request.timeout = svc.update["timeout"]
             /\ svc.request.baseUrl = svc.prev["baseUrl"]

(***************************************************************************)
(* C23  A blank backend reply is never a success: when the backend         *)
(* answers 2xx with a response text that is empty after trimming, the      *)
(* client's generateResponse (edit) and the legacy getAIResponse (append)  *)
(* throw, the generation is reported as failed, and the reply that is      *)
(* appended is an error reply; no assistant message of the conversation    *)
(* has empty content.                                                      *)
(***************************************************************************)
C23_BlankReplyIsNoSuccess ==
  ( /\ last.op \in {"append", "edit"}
    /\ last.out.called
    /\ last.backend.kind = "text"
    /\ Trim(last.backend.text) = <<>> )
  => LET conv == last.out.conv
     IN  /\ last.op = "edit" => BackendClientGenerate(last.backend).thrown
         /\ last.op = "append" => getAIResponse(last.backend).thrown
         /\ ~last.out.generated
         /\ IsErrorReply(conv[Len(conv)])
         /\ \A i \in 1..Len(conv) :
              conv[i].role = "assistant" => Trim(conv[i].content) # <<>>
         /\ last.out.status = 200 /\ stored = conv

\* An edit whose generation got a blank reply was saved with an error reply.
C23_Witness ==
  /\ EditCarriedOut
  /\ last.out.called
  /\ last.backend = BlankReply
  /\ last.out.status = 200
  /\ IsErrorReply(stored[Len(stored)])

(***************************************************************************)
(* C24  The context cutoff does not special-case the system message: for   *)
(* a list whose only system message is at index 0 and whose length         *)
(* exceeds N, prepareAIContext(messages, N) returns no message with role   *)
(* 'system', and the list still holds its system message.                  *)
(***************************************************************************)
C24_SystemMessageCutOff ==
  ( /\ svc.op = "prepareAIContext"
    /\ Len(svc.messages) > svc.maxContextMessages
    /\ IsSystem(svc.messages[1])
    /\ \A i \in 2..Len(svc.messages) : ~IsSystem(svc.messages[i]) )
  => /\ \A i \in 1..Len(svc.result) : svc.result[i].role # "system"
     /\ IsSystem(svc.messages[1])

(***************************************************************************)
(* C27  The context never exceeds the requested window: for every list     *)
(* and every maxContextMessages >= 0, prepareAIContext returns at most     *)
(* maxContextMessages messages.                                            *)
(***************************************************************************)
C27_ContextWithinWindow ==
  svc.op = "prepareAIContext" => Len(svc.result) <= svc.maxContextMessages

(***************************************************************************)
(* C25  Edit index resolution: an edit whose visible index k is in range   *)
(* and aims at a user message always finds its message (no 'Message not    *)
(* found'); the absolute index of an edit that is carried out is the       *)
(* index of the (k+1)-th non-system message of the sequence as it stands   *)
(* after the system-prompt upsert, and the message there is the visible    *)
(* message the guard checked, so it is a user message and never a system   *)
(* message.                                                                *)
(***************************************************************************)
C25_EditIndexResolution ==
  LET visible == VisibleMessages(last.pre)
      k       == last.req.index
      a       == last.out.actualIndex
  IN  /\ ( /\ last.op = "edit"
           /\ MissingEditFields(last.req) = {}
           /\ last.req.id = ConversationId
           /\ k >= 0 /\ k < Len(visible)
           /\ visible[k + 1].sender = "user" )
         => (a # -1 /\ last.out.status # 404)
      /\ EditCarriedOut =>
           LET all == EditSystemPrompt(last.pre, last.req.sp, LastTime)
           IN  /\ a >= 0 /\ a < Len(all)
               /\ IsVisible(all[a + 1])
               /\ Cardinality({i \in 1..a : IsVisible(all[i])}) = k
               /\ all[a + 1] = visible[k + 1]
               /\ all[a + 1].sender = "user"
               /\ last.out.conv[a + 1] =
                    [all[a + 1] EXCEPT !.content = Trim(last.req.content),
                                       !.timestamp = LastTime]

\* The third visible message of a conversation without system message was
\* edited by a request that inserted one: visible index 2, absolute index 3.
C25_Witness ==
  /\ EditCarriedOut
  /\ ~HasSystem(last.pre)
  /\ HasSystem(last.out.conv)
  /\ last.req.index = 2
  /\ last.out.actualIndex = 3

(***************************************************************************)
(* C28  Edit leaves the prefix untouched: after an edit at visible index   *)
(* k, the k non-system messages before the edited message keep their       *)
(* sender, role, content and order, and the edited message keeps its       *)
(* sender and role; only its content and timestamp change.                 *)
(***************************************************************************)
C28_EditKeepsPrefix ==
  EditCarriedOut =>
    LET before == VisibleMessages(last.pre)
        after  == VisibleMessages(last.out.conv)
        k      == last.req.index
    IN  /\ Len(after) > k
        /\ \A i \in 1..k :
             /\ after[i].sender = before[i].sender
             /\ after[i].role = before[i].role
             /\ after[i].content = before[i].content
        /\ after[k + 1].sender = before[k + 1].sender
        /\ after[k + 1].role = before[k + 1].role
        /\ after[k + 1] = [before[k + 1] EXCEPT !.content = after[k + 1].content,
                                                !.timestamp = after[k + 1].timestamp]
        /\ last.out.saved => stored = last.out.conv

\* The third visible message was edited and saved; the first one, whose
\* content starts with a blank, is still there as it was.
C28_Witness ==
  /\ EditCarriedOut
  /\ last.out.saved
  /\ last.req.index = 2
  /\ VisibleMessages(last.pre)[1].content = <<" ", "x", ":", " ", "y">>
  /\ VisibleMessages(stored)[1] = VisibleMessages(last.pre)[1]
  /\ VisibleMessages(stored)[3].content # VisibleMessages(last.pre)[3].content

\* Some handler has saved.
SomeSaved == \E o \in OpIds : inflight.ops[o].pc = "done" /\ inflight.ops[o].status = 200

(***************************************************************************)
(* C29  Overlapping handlers, as claimed: every state of the stored        *)
(* conversation has at most one system message, at index 0 when present,   *)
(* and once a handler has saved, the stored conversation equals the        *)
(* complete in-memory result of one handler, never a mix of two.           *)
(***************************************************************************)
C29_OneHandlersResult ==
  /\ Len(SystemMessages(stored)) <= 1
  /\ \A i \in 1..Len(stored) : IsSystem(stored[i]) => i = 1
  /\ SomeSaved =>
       \E o \in OpIds : /\ inflight.ops[o].pc = "done"
                        /\ inflight.ops[o].status = 200
                        /\ stored = inflight.ops[o].conv

(***************************************************************************)
(* C29 as amended: every state of the stored conversation has at most one  *)
(* system message, at index 0 when present, and once a handler has saved,  *)
(* the stored conversation is the complete in-memory result of one         *)
(* handler, or that result followed by the complete pair (user message,    *)
(* reply) of an append that saved after it; no part of a mutation is       *)
(* stored without the rest.                                                *)
(***************************************************************************)
C29_NoPartialMutation ==
  /\ Len(SystemMessages(stored)) <= 1
  /\ \A i \in 1..Len(stored) : IsSystem(stored[i]) => i = 1
  /\ SomeSaved =>
       \E o \in OpIds :
         /\ inflight.ops[o].pc = "done"
         /\ inflight.ops[o].status = 200
         /\ \/ stored = inflight.ops[o].conv
            \/ \E p \in OpIds \ {o} :
                 LET pushed == PushedMessages(inflight.ops[p].loaded,
                                              inflight.ops[p].conv)
                 IN  /\ inflight.ops[p].pc = "done"
                     /\ inflight.ops[p].status = 200
                     /\ inflight.ops[p].kind = "append"
                     /\ inflight.ops[p].order > inflight.ops[o].order
                     /\ Len(pushed) = 2
                     /\ pushed[1].sender = "user"
                     /\ pushed[2].role = "assistant"
                     /\ stored = inflight.ops[o].conv \o pushed

\* Two appends raced, the first inserted a system message and saved, and
\* the second added its pair of messages to that result.
C29_Witness ==
  /\ BothDone /\ Raced
  /\ \A o \in OpIds : inflight.ops[o].status = 200
  /\ HasSystem(stored)
  /\ ~HasSystem(inflight.ops[LastSaver].conv)
  /\ stored = inflight.ops[FirstSaver].conv
              \o PushedMessages(inflight.ops[LastSaver].loaded,
                                inflight.ops[LastSaver].conv)

\* The rules of validateMessages that message m violates.
ViolatedRules(m) ==
  (IF Trim(m.content) = <<>> THEN {"empty content"} ELSE {})
  \cup (IF m.sender = "" /\ m.role = "none" THEN {"no sender or role"} ELSE {})
  \cup (IF m.timestamp = 0 THEN {"no timestamp"} ELSE {})

\* The list holds message objects only.
AllMessages(msgs) == \A i \in 1..Len(msgs) : ~IsNullEntry(msgs[i])

====
